---- MODULE Spec2Model ----
(***************************************************************************)
(* Model of the polls application (djangotutorial/polls): the Question and  *)
(* Choice tables, the vote view, the poll-creation view with its forms,     *)
(* the statistics view and the per-question aggregation methods.            *)
(*                                                                          *)
(* The database runs in autocommit mode: views.py opens no transaction, so  *)
(* every save() is one statement that commits on its own, and requests of   *)
(* different clients interleave between statements.                         *)
(*                                                                          *)
(* A text is modelled by its length in code points, which is all that the   *)
(* validators of forms.py and models.py look at.                            *)
(*                                                                          *)
(* Four specifications share the definitions:                               *)
(*   Spec        concurrent clients, handlers interleaved between their     *)
(*               SQL statements;                                            *)
(*   SpecSerial  one request at a time, with its response;                  *)
(*   SpecPoll    the poll form filled in every possible way;                *)
(*   SpecRead    the read-only views run against a range of stores.         *)
(***************************************************************************)
EXTENDS Integers, Sequences, FiniteSets, TLC

VARIABLES
    Question,   \* table polls_question: row id |-> [question_text, pub_date]
    Choice,     \* table polls_choice: row id |-> [question, choice_text, votes]
    now,        \* timezone.now(), a logical clock
    pc,         \* per client: the statement its request handler runs next
    local,      \* per client: the local variables of its running, or last, handler
    accepted,   \* per Choice row: votes answered with the redirect of views.py:170
    request,    \* serial server: the request served last
    response,   \* serial server: the response to it
    stats,      \* the context of the last StatisticsView response
    freq        \* the last result of Question.get_choices / get_max_choice

vars == <<Question, Choice, now, pc, local, accepted, request, response, stats, freq>>

-----------------------------------------------------------------------------
(* Bounds of the model *)

NumClients == 2
MaxQuestions == 1
MaxVotes == 2
MaxSerialQuestions == 2
MaxSerialVotes == 2
MaxPollQuestions == 1
MaxReadQuestions == 2
MaxReadChoices == 3
MaxReadVotes == 1

Client == 1..NumClients

-----------------------------------------------------------------------------
(* Program constants *)

max_length == 200
min_num == 3
extra == 2
validate_min == TRUE
votes_default == 0

\* Python's None where an id or an object is expected (row ids start at 1).
None == 0
\* SQL NULL / Python None as the value of Sum() over no rows.
NULL == -1

\* The length of a text that fits a CharField, and of one that does not.
Fits == max_length
TooLong == max_length + 1
TextLengths == {0, Fits, TooLong}

-----------------------------------------------------------------------------
(* Queries *)

Ids(table) == 1..Len(table)

RECURSIVE SumOver(_, _)
SumOver(f, S) ==
    IF S = {} THEN 0
    ELSE LET x == CHOOSE y \in S : TRUE IN f[x] + SumOver(f, S \ {x})

\* question.choice_set: the ids of the Choice rows owned by question q.
choice_set(C, q) == {c \in Ids(C) : C[c].question = q}

RECURSIVE Ascending(_)
Ascending(S) ==
    IF S = {} THEN <<>>
    ELSE LET m == CHOOSE x \in S : \A y \in S : x <= y
         IN <<m>> \o Ascending(S \ {m})

\* question.choice_set.all(): the rows in the store's natural (id) order.
choice_set_all(C, q) == Ascending(choice_set(C, q))

\* aggregate(Sum('votes')): NULL over no rows.
SumVotes(C, S) ==
    IF S = {} THEN NULL ELSE SumOver([c \in S |-> C[c].votes], S)

\* Question.objects.order_by("id")
AllView_get_queryset(Q) == Ascending(Ids(Q))

-----------------------------------------------------------------------------
(* Records *)

NoRow == [pk |-> None, question |-> None, choice_text |-> 0, votes |-> 0]

NoLocal == [question |-> None, selected_choice |-> NoRow, choice_text |-> <<>>, i |-> 0]

NoRequest ==
    [view |-> "none", method |-> "GET", question_id |-> None, choice |-> None,
     question_text |-> 0, choice_text |-> <<>>]

VoteRequest(question_id, choice) ==
    [NoRequest EXCEPT !.view = "vote", !.method = "POST",
                      !.question_id = question_id, !.choice = choice]

PollRequest(method, question_text, choice_text) ==
    IF method = "POST"
    THEN [NoRequest EXCEPT !.view = "poll", !.method = "POST",
                           !.question_text = question_text, !.choice_text = choice_text]
    ELSE [NoRequest EXCEPT !.view = "poll"]

\* QuestionForm(): unbound, empty.
UnboundForm == [is_bound |-> FALSE, question_text |-> 0, errors |-> ""]

NoFormSet ==
    [is_bound |-> FALSE, choice_text |-> <<>>, errors |-> <<>>, non_form_errors |-> ""]

NoResponse ==
    [status |-> "none", question |-> None, error_message |-> FALSE,
     form |-> UnboundForm, formset |-> NoFormSet]

-----------------------------------------------------------------------------
(* forms.py *)

\* The forms of a rendered ChoiceFormSet: the min_num required ones, then the extra ones.
NumForms == min_num + extra

Forms == 1..NumForms

\* A form whose only field is left empty has not changed.
has_changed(text) == text > 0

\* Validation of a CharField with max_length=200; the results are the keys of
\* error_messages in the forms' Meta classes.
CharFieldError(text, may_be_empty) ==
    IF ~has_changed(text) THEN (IF may_be_empty THEN "" ELSE "required")
    ELSE IF text > max_length THEN "max_length"
    ELSE ""

\* QuestionForm(request.POST): bound to the submitted question_text.
QuestionForm(text) ==
    [is_bound |-> TRUE, question_text |-> text, errors |-> CharFieldError(text, FALSE)]

form_is_valid(form) == form.is_bound /\ form.errors = ""

\* An extra form may stay empty; a form among the first min_num may not.
empty_permitted(i) == i > min_num

\* validate_min: too few forms when fewer than min_num forms are filled in.
NonFormErrors(texts) ==
    IF validate_min /\ Cardinality({i \in DOMAIN texts : has_changed(texts[i])}) < min_num
    THEN "too_few_forms" ELSE ""

\* ChoiceFormSet(request.POST, instance=...): bound to the submitted choice texts.
ChoiceFormSet(texts) ==
    [is_bound |-> TRUE,
     choice_text |-> texts,
     errors |-> [i \in DOMAIN texts |-> CharFieldError(texts[i], empty_permitted(i))],
     non_form_errors |-> NonFormErrors(texts)]

\* ChoiceFormSet(): unbound, min_num + extra empty forms.
UnboundChoiceFormSet ==
    [is_bound |-> FALSE,
     choice_text |-> [i \in Forms |-> 0],
     errors |-> [i \in Forms |-> ""],
     non_form_errors |-> ""]

formset_is_valid(formset) ==
    /\ formset.is_bound
    /\ \A i \in DOMAIN formset.errors : formset.errors[i] = ""
    /\ formset.non_form_errors = ""

\* formset.save() saves the forms that have changed, in form order: the changed
\* forms from form i on.
ChangedForms(texts, i) == {j \in DOMAIN texts : j >= i /\ has_changed(texts[j])}

NextChangedForm(texts, i) ==
    CHOOSE j \in ChangedForms(texts, i) : \A k \in ChangedForms(texts, i) : j <= k

-----------------------------------------------------------------------------
(* views.py: vote *)

\* Mutant: the Choice is looked up in the whole table, Choice.objects.get(pk=...).
GetSelectedChoice_AnyQuestion(C, q, choice) ==
    IF choice # None /\ choice \in Ids(C)
    THEN [pk |-> choice, question |-> C[choice].question,
          choice_text |-> C[choice].choice_text, votes |-> C[choice].votes]
    ELSE NoRow

\* question.choice_set.get(pk=request.POST["choice"]): the row, or NoRow for
\* KeyError (no "choice" in the POST data) and for Choice.DoesNotExist.
GetSelectedChoice(C, q, choice) ==
    IF choice # None /\ choice \in choice_set(C, q)
    THEN [pk |-> choice, question |-> C[choice].question,
          choice_text |-> C[choice].choice_text, votes |-> C[choice].votes]
    ELSE NoRow

\* Mutant: the increment is computed in Python from the value read by the SELECT.
SaveVote_ReadModifyWrite(C, sc) ==
    [C EXCEPT ![sc.pk] = [question |-> sc.question,
                          choice_text |-> sc.choice_text,
                          votes |-> sc.votes + 1]]

\* Mutant: the UPDATE is filtered by the question instead of the row id.
SaveVote_WholeQuestion(C, sc) ==
    [c \in Ids(C) |->
        IF C[c].question = sc.question
        THEN [question |-> sc.question, choice_text |-> sc.choice_text,
              votes |-> C[c].votes + 1]
        ELSE C[c]]

\* Mutant: save() is called twice, and the F() expression is applied each time.
SaveVote_Twice(C, sc) ==
    [C EXCEPT ![sc.pk] = [question |-> sc.question,
                          choice_text |-> sc.choice_text,
                          votes |-> @.votes + 2]]

\* selected_choice.votes = F("votes") + 1; selected_choice.save():
\*   UPDATE polls_choice SET question_id = %s, choice_text = %s, votes = votes + 1
\*   WHERE id = %s
\* the other columns are written from the in-memory object sc.
SaveVote(C, sc) ==
    [C EXCEPT ![sc.pk] = [question |-> sc.question,
                          choice_text |-> sc.choice_text,
                          votes |-> @.votes + 1]]

\* The response of vote(request, question_id).
VoteResponse(Q, C, question_id, choice) ==
    IF question_id \notin Ids(Q)
    THEN [NoResponse EXCEPT !.status = "Http404"]
    ELSE IF GetSelectedChoice(C, question_id, choice) = NoRow
    THEN [NoResponse EXCEPT !.status = "detail", !.question = question_id,
                            !.error_message = TRUE]
    ELSE [NoResponse EXCEPT !.status = "redirect_frequency", !.question = question_id]

-----------------------------------------------------------------------------
(* views.py: poll *)

\* question.save(): INSERT INTO polls_question, pub_date the current time.
InsertQuestion(Q, text, t) == Append(Q, [question_text |-> text, pub_date |-> t])

\* One new Choice of formset.save(): INSERT INTO polls_choice. The form has no
\* votes field, so the row gets the field's default.
InsertChoice(C, q, text) ==
    Append(C, [question |-> q, choice_text |-> text, votes |-> votes_default])

\* Mutant: every form is saved, changed or not.
RECURSIVE formset_save_EveryForm(_, _, _, _)
formset_save_EveryForm(C, q, texts, i) ==
    IF i > Len(texts) THEN C
    ELSE formset_save_EveryForm(
             Append(C, [question |-> q, choice_text |-> texts[i], votes |-> 0]),
             q, texts, i + 1)

\* formset.save(): the INSERTs of the changed forms from form i on.
RECURSIVE formset_save(_, _, _, _)
formset_save(C, q, texts, i) ==
    IF ChangedForms(texts, i) = {} THEN C
    ELSE LET j == NextChangedForm(texts, i)
         IN formset_save(InsertChoice(C, q, texts[j]), q, texts, j + 1)

\* Whether poll(request) reaches the saves of views.py:207-214.
PollIsValid(method, question_text, choice_text) ==
    /\ method = "POST"
    /\ form_is_valid(QuestionForm(question_text))
    /\ formset_is_valid(ChoiceFormSet(choice_text))

\* Mutant: the formset is rebuilt empty whenever the form is rendered again.
PollResponse_EmptyFormSet(method, question_text, choice_text) ==
    IF method = "POST" /\ form_is_valid(QuestionForm(question_text))
                      /\ formset_is_valid(ChoiceFormSet(choice_text))
    THEN [NoResponse EXCEPT !.status = "redirect_index"]
    ELSE [NoResponse EXCEPT !.status = "poll_form",
                            !.form = IF method = "POST" THEN QuestionForm(question_text)
                                     ELSE UnboundForm,
                            !.formset = UnboundChoiceFormSet]

\* The response of poll(request).
PollResponse(method, question_text, choice_text) ==
    IF method # "POST"
    THEN [NoResponse EXCEPT !.status = "poll_form", !.form = UnboundForm,
                            !.formset = UnboundChoiceFormSet]
    ELSE IF ~form_is_valid(QuestionForm(question_text))
    THEN [NoResponse EXCEPT !.status = "poll_form", !.form = QuestionForm(question_text),
                            !.formset = UnboundChoiceFormSet]
    ELSE IF ~formset_is_valid(ChoiceFormSet(choice_text))
    THEN [NoResponse EXCEPT !.status = "poll_form", !.form = QuestionForm(question_text),
                            !.formset = ChoiceFormSet(choice_text)]
    ELSE [NoResponse EXCEPT !.status = "redirect_index"]

-----------------------------------------------------------------------------
(* Concurrent clients: the handlers interleave between their SQL statements *)

InFlightVotes == Cardinality({p \in Client : pc[p] = "vote_save"})

InFlightPolls == Cardinality({p \in Client : pc[p] = "poll_save_choices"})

TotalAccepted == SumOver(accepted, DOMAIN accepted)

\* views.py:151-163: the two SELECTs of vote(), which read rows that are never
\* deleted or re-parented. A request answered here (404, or the form with its
\* error message) leaves the state as it is: a stuttering step.
VoteSelect(p, question_id, choice) ==
    /\ pc[p] = "idle"
    /\ TotalAccepted + InFlightVotes < MaxVotes
    /\ VoteResponse(Question, Choice, question_id, choice).status = "redirect_frequency"
    /\ pc' = [pc EXCEPT ![p] = "vote_save"]
    /\ local' = [local EXCEPT ![p] =
                   [NoLocal EXCEPT !.question = question_id,
                                   !.selected_choice =
                                       GetSelectedChoice(Choice, question_id, choice)]]
    /\ UNCHANGED <<Question, Choice, now, accepted, request, response, stats, freq>>

\* views.py:164-170: the UPDATE, and the redirect.
VoteSave(p) ==
    /\ pc[p] = "vote_save"
    /\ Choice' = SaveVote(Choice, local[p].selected_choice)
    /\ accepted' = [accepted EXCEPT ![local[p].selected_choice.pk] = @ + 1]
    /\ pc' = [pc EXCEPT ![p] = "idle"]
    /\ UNCHANGED <<Question, now, local, request, response, stats, freq>>

\* views.py:198-212: a valid POST is validated and its Question INSERTed.
PollSaveQuestion(p, question_text, choice_text) ==
    /\ pc[p] = "idle"
    /\ Len(Question) < MaxQuestions
    /\ PollIsValid("POST", question_text, choice_text)
    /\ Question' = InsertQuestion(Question, question_text, now)
    /\ now' = now + 1
    /\ pc' = [pc EXCEPT ![p] = "poll_save_choices"]
    /\ local' = [local EXCEPT ![p] =
                   [NoLocal EXCEPT !.question = Len(Question) + 1,
                                   !.choice_text = choice_text, !.i = 1]]
    /\ UNCHANGED <<Choice, accepted, request, response, stats, freq>>

\* views.py:214-217: formset.save() INSERTs the next changed form; after the last
\* one the handler redirects.
PollSaveChoice(p) ==
    /\ pc[p] = "poll_save_choices"
    /\ LET texts == local[p].choice_text
           j == NextChangedForm(texts, local[p].i)
       IN /\ Choice' = InsertChoice(Choice, local[p].question, texts[j])
          /\ accepted' = Append(accepted, 0)
          /\ local' = [local EXCEPT ![p].i = j + 1]
          /\ pc' = [pc EXCEPT ![p] =
                      IF ChangedForms(texts, j + 1) = {} THEN "idle" ELSE @]
    /\ UNCHANGED <<Question, now, request, response, stats, freq>>

NoStats ==
    [questions_count |-> 0, choices_count |-> 0, votes_count |-> 0,
     votes_average_by_question |-> <<0, 1>>,
     best_question |-> None, worst_question |-> None, last_question |-> None]

NoFreq == [question |-> None, choices |-> <<>>, max_choice |-> <<None, <<0, 1>>>>]

Init ==
    /\ Question = <<>>
    /\ Choice = <<>>
    /\ now = 1
    /\ pc = [p \in Client |-> "idle"]
    /\ local = [p \in Client |-> NoLocal]
    /\ accepted = <<>>
    /\ request = NoRequest
    /\ response = NoResponse
    /\ stats = NoStats
    /\ freq = NoFreq

\* The poll forms the concurrent clients submit.
PostedChoiceTexts == {<<Fits, Fits, Fits, 0, 0>>}

Next ==
    \E p \in Client :
        \/ \E q \in Ids(Question), c \in Ids(Choice) : VoteSelect(p, q, c)
        \/ VoteSave(p)
        \/ \E ct \in PostedChoiceTexts : PollSaveQuestion(p, Fits, ct)
        \/ PollSaveChoice(p)

Spec == Init /\ [][Next]_vars

-----------------------------------------------------------------------------
(* Serial server: one request is handled at a time, from receipt to response *)

\* views.py:139-170
vote(question_id, choice) ==
    /\ request' = VoteRequest(question_id, choice)
    /\ response' = VoteResponse(Question, Choice, question_id, choice)
    /\ IF VoteResponse(Question, Choice, question_id, choice).status = "redirect_frequency"
       THEN /\ TotalAccepted < MaxSerialVotes
            /\ Choice' = SaveVote(Choice, GetSelectedChoice(Choice, question_id, choice))
            /\ accepted' = [accepted EXCEPT ![choice] = @ + 1]
       ELSE UNCHANGED <<Choice, accepted>>
    /\ UNCHANGED <<Question, now, pc, local, stats, freq>>

\* views.py:173-233
poll(method, question_text, choice_text) ==
    /\ request' = PollRequest(method, question_text, choice_text)
    /\ response' = PollResponse(method, question_text, choice_text)
    /\ IF PollIsValid(method, question_text, choice_text)
       THEN /\ Question' = InsertQuestion(Question, question_text, now)
            /\ now' = now + 1
            /\ Choice' = formset_save(Choice, Len(Question) + 1, choice_text, 1)
            /\ accepted' = [c \in Ids(Choice') |->
                              IF c \in Ids(Choice) THEN accepted[c] ELSE 0]
       ELSE UNCHANGED <<Question, Choice, now, accepted>>
    /\ UNCHANGED <<pc, local, stats, freq>>

NextSerial ==
    \/ \E q \in 1..(Len(Question) + 1), c \in 0..(Len(Choice) + 1) : vote(q, c)
    \/ \E qt \in {Fits, 0}, ct \in PostedChoiceTexts :
           Len(Question) < MaxSerialQuestions /\ poll("POST", qt, ct)

SpecSerial == Init /\ [][NextSerial]_vars

\* Every way of filling in the poll form.
AllChoiceTexts == [Forms -> TextLengths]

NextPoll ==
    /\ Len(Question) < MaxPollQuestions
    /\ \/ poll("GET", 0, <<>>)
       \/ \E qt \in TextLengths, ct \in AllChoiceTexts : poll("POST", qt, ct)

SpecPoll == Init /\ [][NextPoll]_vars

-----------------------------------------------------------------------------
(* models.py: the aggregation methods of Question *)

\* n / d in Python. The quotient is kept as the exact fraction <<n, d>>; a
\* fraction with denominator 0 stands for ZeroDivisionError.
Div(n, d) == <<n, d>>

\* The integer 0 that the methods return without dividing.
Zero == <<0, 1>>

\* Python's "not total": total is None or 0.
Not(total) == total = NULL \/ total = 0

\* Mutant: the guard is "total is None", which lets a total of 0 through.
get_choices_NoneOnly(C, q) ==
    LET total == SumVotes(C, choice_set(C, q))
        all == choice_set_all(C, q)
    IN IF total = NULL
       THEN [k \in DOMAIN all |-> <<C[all[k]].choice_text, C[all[k]].votes, Zero>>]
       ELSE [k \in DOMAIN all |->
               <<C[all[k]].choice_text, C[all[k]].votes, Div(C[all[k]].votes * 100, total)>>]

\* Question.get_choices: (choice_text, votes, percentage) per Choice.
get_choices(C, q) ==
    LET total == SumVotes(C, choice_set(C, q))
        all == choice_set_all(C, q)
    IN IF Not(total)
       THEN [k \in DOMAIN all |-> <<C[all[k]].choice_text, C[all[k]].votes, Zero>>]
       ELSE [k \in DOMAIN all |->
               <<C[all[k]].choice_text, C[all[k]].votes, Div(C[all[k]].votes * 100, total)>>]

\* max(choices, key=lambda c: c.votes / total): the first Choice in iteration
\* order whose key no other exceeds (the keys share the denominator total > 0).
MaxChoice(C, all) ==
    all[CHOOSE k \in DOMAIN all :
            /\ \A m \in DOMAIN all : C[all[m]].votes <= C[all[k]].votes
            /\ \A m \in DOMAIN all : m < k => C[all[m]].votes < C[all[k]].votes]

\* Question.get_max_choice: (choice_text, share), or (None, 0).
get_max_choice(C, q) ==
    LET total == SumVotes(C, choice_set(C, q))
        all == choice_set_all(C, q)
    IN IF Not(total)
       THEN <<None, Zero>>
       ELSE <<C[MaxChoice(C, all)].choice_text, Div(C[MaxChoice(C, all)].votes, total)>>

\* models.py:60-96 called on Question q.
Aggregate(q) ==
    /\ freq' = [question |-> q,
                choices |-> get_choices(Choice, q),
                max_choice |-> get_max_choice(Choice, q)]
    /\ UNCHANGED <<Question, Choice, now, pc, local, accepted, request, response, stats>>

-----------------------------------------------------------------------------
(* views.py: StatisticsView *)

\* annotate(total_votes_count=Sum('choice__votes')): NULL for a Question that
\* owns no Choice.
total_votes_count(C, q) == SumVotes(C, choice_set(C, q))

\* The place of a row under ORDER BY total_votes_count. Where NULL sorts is the
\* database's choice: below every number (SQLite, MySQL) or above (PostgreSQL,
\* Oracle).
SortKey(C, q, nulls_largest) ==
    IF total_votes_count(C, q) = NULL
    THEN (IF nulls_largest THEN SumOver([c \in Ids(C) |-> C[c].votes], Ids(C)) + 1 ELSE NULL)
    ELSE total_votes_count(C, q)

\* order_by('-total_votes_count').first(): ORDER BY total_votes_count DESC LIMIT 1.
\* The query names no second sort key, so any row with the greatest key may be
\* returned; None when there is no Question.
BestQuestions(Q, C, nulls_largest) ==
    IF Q = <<>> THEN {None}
    ELSE {q \in Ids(Q) :
            \A r \in Ids(Q) : SortKey(C, r, nulls_largest) <= SortKey(C, q, nulls_largest)}

\* order_by('-total_votes_count').last(): the ordering reversed,
\* ORDER BY total_votes_count ASC LIMIT 1; any row with the least key.
WorstQuestions(Q, C, nulls_largest) ==
    IF Q = <<>> THEN {None}
    ELSE {q \in Ids(Q) :
            \A r \in Ids(Q) : SortKey(C, q, nulls_largest) <= SortKey(C, r, nulls_largest)}

\* views.py:104-136 get_context_data
get_context_data ==
    \E nulls_largest \in BOOLEAN :
    \E best \in BestQuestions(Question, Choice, nulls_largest),
       worst \in WorstQuestions(Question, Choice, nulls_largest) :
        /\ LET total_questions == Len(Question)
               total_votes == IF SumVotes(Choice, Ids(Choice)) = NULL
                              THEN 0 ELSE SumVotes(Choice, Ids(Choice))
           IN stats' = [questions_count |-> total_questions,
                        choices_count |-> Len(Choice),
                        votes_count |-> total_votes,
                        votes_average_by_question |->
                            IF total_questions > 0
                            THEN Div(total_votes, total_questions) ELSE Zero,
                        best_question |-> best,
                        worst_question |-> worst,
                        last_question |-> Len(Question)]
        /\ UNCHANGED <<Question, Choice, now, pc, local, accepted, request, response, freq>>

\* The stores the read-only views are run against: up to MaxReadQuestions
\* Questions, up to MaxReadChoices Choices owned by any of them (a Question
\* whose Choices are not all saved yet owns fewer than min_num), each with up
\* to MaxReadVotes votes.
InitRead ==
    /\ Question \in {[i \in 1..n |-> [question_text |-> Fits, pub_date |-> i]] :
                       n \in 0..MaxReadQuestions}
    /\ Choice \in UNION {[1..m -> [question : Ids(Question), choice_text : {Fits},
                                   votes : 0..MaxReadVotes]] : m \in 0..MaxReadChoices}
    /\ now = Len(Question) + 1
    /\ accepted = [c \in Ids(Choice) |-> Choice[c].votes]
    /\ pc = [p \in Client |-> "idle"]
    /\ local = [p \in Client |-> NoLocal]
    /\ request = NoRequest
    /\ response = NoResponse
    /\ stats = NoStats
    /\ freq = NoFreq

NextRead ==
    \/ get_context_data
    \/ \E q \in Ids(Question) : Aggregate(q)

SpecRead == InitRead /\ [][NextRead]_vars

-----------------------------------------------------------------------------
(* C1: no lost update *)

\* C1. Whatever the interleaving of the clients' vote requests, every Choice
\* counts exactly the votes accepted for it on top of the value it was created
\* with: two votes that selected the same Choice before either saved leave it
\* at 2.
C1_NoLostUpdate ==
    \A c \in Ids(Choice) : Choice[c].votes = votes_default + accepted[c]

\* Two clients selected the same Choice while it had no vote, both have saved,
\* and the Choice has 2 votes.
C1_Witness ==
    \E p, r \in Client :
        /\ p # r
        /\ pc[p] = "idle" /\ pc[r] = "idle"
        /\ local[p].selected_choice.pk # None
        /\ local[p].selected_choice.pk = local[r].selected_choice.pk
        /\ local[p].selected_choice.votes = 0
        /\ local[r].selected_choice.votes = 0
        /\ Choice[local[p].selected_choice.pk].votes = 2

-----------------------------------------------------------------------------
(* C2: poll creation is all-or-nothing *)

\* C2. No state of the store holds a Question without all the Choices that
\* were submitted with it: a Question whose handler is still saving owns every
\* changed form's Choice already, and every Question owns at least min_num.
C2_AllOrNothing ==
    \A q \in Ids(Question) :
        /\ Cardinality(choice_set(Choice, q)) >= min_num
        /\ \A p \in Client :
               pc[p] = "poll_save_choices" /\ local[p].question = q =>
                   Cardinality(choice_set(Choice, q)) =
                       Cardinality(ChangedForms(local[p].choice_text, 1))

-----------------------------------------------------------------------------
(* C8: the frame of an accepted vote *)

\* C8. The step that saves an accepted vote on Choice c leaves the Question
\* table, the set of Choice rows, every other Choice row, and c's question and
\* choice_text as they were, whatever the other clients are doing.
C8_VoteFrame ==
    [][\A p \in Client :
          pc[p] = "vote_save" /\ pc'[p] = "idle" =>
              /\ Question' = Question
              /\ Ids(Choice') = Ids(Choice)
              /\ \A d \in Ids(Choice) :
                     /\ Choice'[d].question = Choice[d].question
                     /\ Choice'[d].choice_text = Choice[d].choice_text
                     /\ d # local[p].selected_choice.pk => Choice'[d] = Choice[d]]_vars

\* A vote has been saved on one Choice while another client holds a selected
\* Choice it has yet to save, and the other Choices of the Question have no vote.
C8_Witness ==
    \E p \in Client, c \in Ids(Choice) :
        /\ pc[p] = "vote_save"
        /\ Choice[c].votes = 1
        /\ \A d \in choice_set(Choice, Choice[c].question) \ {c} : Choice[d].votes = 0
        /\ Cardinality(choice_set(Choice, Choice[c].question)) >= min_num

-----------------------------------------------------------------------------
(* C10: votes is a counter of accepted votes *)

\* C10. In every step, a Choice that is created starts with 0 votes, and a
\* Choice that exists keeps its votes or gains exactly 1 together with one
\* accepted vote on it; votes is never negative.
C10_VotesCounter ==
    [][\A c \in Ids(Choice') :
          /\ Choice'[c].votes >= 0
          /\ IF c \in Ids(Choice)
             THEN \/ Choice'[c].votes = Choice[c].votes /\ accepted'[c] = accepted[c]
                  \/ /\ Choice'[c].votes = Choice[c].votes + 1
                     /\ accepted'[c] = accepted[c] + 1
             ELSE Choice'[c].votes = 0 /\ accepted'[c] = 0]_vars

\* A Choice has been voted for twice while the poll it belongs to is still
\* being created.
C10_Witness ==
    \E c \in Ids(Choice), p \in Client :
        /\ pc[p] = "poll_save_choices"
        /\ local[p].question = Choice[c].question
        /\ Choice[c].votes = 2
        /\ accepted[c] = 2

-----------------------------------------------------------------------------
(* C3: the error outcomes of vote *)

-----------------------------------------------------------------------------
(* C4: the minimum number of choices *)

NonEmpty(texts) == {i \in DOMAIN texts : texts[i] > 0}

ValidText(text) == text > 0 /\ text <= max_length

\* The new Question is listed and owns exactly three Choices without votes.
CreatedWithThreeChoices ==
    /\ response'.status = "redirect_index"
    /\ Len(Question') = Len(Question) + 1
    /\ \E k \in DOMAIN AllView_get_queryset(Question') :
           AllView_get_queryset(Question')[k] = Len(Question')
    /\ Cardinality(choice_set(Choice', Len(Question'))) = 3
    /\ \A c \in choice_set(Choice', Len(Question')) : Choice'[c].votes = 0

RejectedAndNothingSaved ==
    /\ response'.status = "poll_form"
    /\ UNCHANGED <<Question, Choice>>

\* C4 as stated. A POST with fewer than 3 non-empty choice texts saves nothing
\* and is answered with the form; a POST with a valid question text and exactly
\* 3 non-empty choice texts (each within max_length) creates the Question with
\* exactly 3 Choices of 0 votes.
C4_Original ==
    [][request'.view = "poll" /\ request'.method = "POST" =>
          /\ Cardinality(NonEmpty(request'.choice_text)) < 3 => RejectedAndNothingSaved
          /\ (/\ ValidText(request'.question_text)
              /\ Cardinality(NonEmpty(request'.choice_text)) = 3
              /\ \A i \in NonEmpty(request'.choice_text) :
                     ValidText(request'.choice_text[i])) => CreatedWithThreeChoices]_vars

\* C4 as amended. As C4, the three non-empty choice texts being those of the
\* first three entries of the form.
C4_MinChoices ==
    [][request'.view = "poll" /\ request'.method = "POST" =>
          /\ Cardinality(NonEmpty(request'.choice_text)) < 3 => RejectedAndNothingSaved
          /\ (/\ ValidText(request'.question_text)
              /\ NonEmpty(request'.choice_text) = 1..3
              /\ \A i \in 1..3 : ValidText(request'.choice_text[i])) =>
                 CreatedWithThreeChoices]_vars

\* A poll was posted with its first three choice entries filled and was created.
C4_Witness ==
    /\ request.view = "poll" /\ request.method = "POST"
    /\ NonEmpty(request.choice_text) = 1..3
    /\ response.status = "redirect_index"
    /\ Len(Question) = 1
    /\ Cardinality(choice_set(Choice, 1)) = 3

-----------------------------------------------------------------------------
(* C9: the response to an invalid poll *)

SomeFieldError(resp) ==
    \/ resp.form.errors # ""
    \/ \E i \in DOMAIN resp.formset.errors : resp.formset.errors[i] # ""

\* C9 as stated. A POST that fails validation saves nothing and is answered
\* with the submitted question text, every submitted choice text, and the
\* field errors.
C9_Original ==
    [][(/\ request'.view = "poll" /\ request'.method = "POST"
        /\ response'.status = "poll_form") =>
          /\ UNCHANGED <<Question, Choice>>
          /\ response'.form.question_text = request'.question_text
          /\ response'.formset.choice_text = request'.choice_text
          /\ SomeFieldError(response')]_vars

\* C9 as amended. A POST that fails validation saves nothing and is answered
\* with the submitted question text and the field errors; the submitted choice
\* texts come back, with their errors, when the question text is valid; when
\* it is not, the choice entries come back empty and without errors.
C9_InvalidPollResponse ==
    [][(/\ request'.view = "poll" /\ request'.method = "POST"
        /\ response'.status = "poll_form") =>
          /\ UNCHANGED <<Question, Choice>>
          /\ response'.form.question_text = request'.question_text
          /\ SomeFieldError(response')
          /\ IF ValidText(request'.question_text)
             THEN /\ response'.formset.is_bound
                  /\ response'.formset.choice_text = request'.choice_text
                  /\ \E i \in Forms : response'.formset.errors[i] # ""
             ELSE /\ ~response'.formset.is_bound
                  /\ \A i \in Forms : /\ response'.formset.choice_text[i] = 0
                                      /\ response'.formset.errors[i] = ""
                  /\ response'.form.errors # ""]_vars

\* A poll was posted with an over-long question text and five choice texts, one
\* of them over-long, and came back with the question's error and empty choices.
C9_Witness ==
    /\ request.view = "poll" /\ request.method = "POST"
    /\ request.question_text > max_length
    /\ NonEmpty(request.choice_text) = Forms
    /\ \E i \in Forms : request.choice_text[i] > max_length
    /\ response.status = "poll_form"
    /\ response.form.errors = "max_length"
    /\ Question = <<>> /\ Choice = <<>>

-----------------------------------------------------------------------------
(* C5, C6: the best and the worst Question *)

\* A Question's total as the ranking is to see it: 0 where the sum is absent.
TotalOrZero(q) ==
    IF total_votes_count(Choice, q) = NULL THEN 0 ELSE total_votes_count(Choice, q)

Lowest(S) == CHOOSE x \in S : \A y \in S : x <= y

Highest(S) == CHOOSE x \in S : \A y \in S : y <= x

MaxTotal == {q \in Ids(Question) : \A r \in Ids(Question) : TotalOrZero(r) <= TotalOrZero(q)}

MinTotal == {q \in Ids(Question) : \A r \in Ids(Question) : TotalOrZero(q) <= TotalOrZero(r)}

Computed == stats.questions_count > 0

\* C5. Where every Question owns a Choice, best_question is the lowest id
\* among the Questions of greatest total and worst_question the highest id
\* among those of least total; being a function of the data, the result is the
\* same on every call.
C5_TieBreak ==
    (Computed /\ \A q \in Ids(Question) : choice_set(Choice, q) # {}) =>
        /\ stats.best_question = Lowest(MaxTotal)
        /\ stats.worst_question = Highest(MinTotal)

\* C6. A Question that owns no Choice is ranked as one of total 0: it is not
\* the best while another Question has votes; of two Questions, one without
\* Choices and one whose Choices have no votes, the two tie, so that the best
\* is the lower id and the worst the higher; and alone, it is both the best
\* and the worst.
C6_NoChoicesCountsAsZero ==
    Computed =>
        /\ \A q \in Ids(Question) :
               (choice_set(Choice, q) = {} /\ \E r \in Ids(Question) : TotalOrZero(r) > 0)
                   => stats.best_question # q
        /\ (/\ Len(Question) = 2
            /\ \E q \in Ids(Question) : choice_set(Choice, q) = {}
            /\ \E q \in Ids(Question) : choice_set(Choice, q) # {}
            /\ \A q \in Ids(Question) : TotalOrZero(q) = 0) =>
               stats.best_question = 1 /\ stats.worst_question = 2
        /\ (Len(Question) = 1 /\ Choice = <<>>) =>
               stats.best_question = 1 /\ stats.worst_question = 1

-----------------------------------------------------------------------------
(* C7: a Question without votes *)

\* C7. For a Question whose total is absent or 0, get_choices gives each of
\* its Choices, in the order of choice_set.all(), the percentage 0 itself, not
\* a quotient, and get_max_choice gives (None, 0).
C7_NoVotes ==
    (freq.question # None /\ Not(total_votes_count(Choice, freq.question))) =>
        /\ Len(freq.choices) = Cardinality(choice_set(Choice, freq.question))
        /\ \A k \in DOMAIN freq.choices :
               LET c == choice_set_all(Choice, freq.question)[k]
               IN freq.choices[k] = <<Choice[c].choice_text, Choice[c].votes, Zero>>
        /\ freq.max_choice = <<None, Zero>>

\* The methods were called on a Question with min_num Choices, none of them
\* voted for.
C7_Witness ==
    /\ freq.question # None
    /\ Cardinality(choice_set(Choice, freq.question)) = min_num
    /\ \A c \in choice_set(Choice, freq.question) : Choice[c].votes = 0
    /\ Len(freq.choices) = min_num

====
